---- MODULE Spec2Model ----
(***************************************************************************)
(* Model of update_rss_feed.py: the fetch -> extract -> render -> write    *)
(* pipeline of main(), with extract_articles and generate_rss_xml computed *)
(* as the code computes them.                                              *)
(*                                                                         *)
(* A Python str is a sequence of characters.  A character is a one-letter  *)
(* TLA+ string; a character outside ASCII is named by its code point       *)
(* ("U4E0B").  len() is Len, so a CJK character counts as one.             *)
(***************************************************************************)
EXTENDS Naturals, Sequences, FiniteSets

---------------------------------------------------------------------------
(* Python str primitives used by the source.                               *)

\* Characters str.strip() removes (the ones the inputs use).
WhiteSpace == {" ", "\t", "\n"}

Digits == {"0", "1", "2", "3", "4", "5", "6", "7", "8", "9"}

LowerCase == {"a", "b", "c", "d", "e", "f", "g", "h", "i", "j", "k", "l", "m",
              "n", "o", "p", "q", "r", "s", "t", "u", "v", "w", "x", "y", "z"}

UpperCase == {"A", "B", "C", "D", "E", "F", "G", "H", "I", "J", "K", "L", "M",
              "N", "O", "P", "Q", "R", "S", "T", "U", "V", "W", "X", "Y", "Z"}

\* s[i:] and s[:i] with Python's 0-based cut point i (0 <= i <= len).
DropFirst(s, i) == SubSeq(s, i + 1, Len(s))
TakeFirst(s, i) == SubSeq(s, 1, i)

\* The first index >= i at which s holds a character outside cs, or Len(s)+1.
RECURSIVE SkipLeft(_, _, _)
SkipLeft(s, cs, i) ==
  IF i > Len(s) \/ s[i] \notin cs THEN i ELSE SkipLeft(s, cs, i + 1)

\* The last index <= j at which s holds a character outside cs, or 0.
RECURSIVE SkipRight(_, _, _)
SkipRight(s, cs, j) ==
  IF j < 1 \/ s[j] \notin cs THEN j ELSE SkipRight(s, cs, j - 1)

\* str.strip(): leading and trailing whitespace removed.
strip(s) == SubSeq(s, SkipLeft(s, WhiteSpace, 1), SkipRight(s, WhiteSpace, Len(s)))

\* str.startswith(prefix)
startswith(s, prefix) ==
  Len(s) >= Len(prefix) /\ SubSeq(s, 1, Len(prefix)) = prefix

\* str.find(c) for a set of characters: the first index >= i of s holding one
\* of cs, or 0 when there is none.
RECURSIVE FindFrom(_, _, _)
FindFrom(s, cs, i) ==
  IF i > Len(s) THEN 0
  ELSE IF s[i] \in cs THEN i ELSE FindFrom(s, cs, i + 1)

\* str.split(sep) on one separator character: the list of pieces.
RECURSIVE split_at(_, _, _)
split_at(s, sep, i) ==
  IF i = 0 THEN <<s>>
  ELSE <<TakeFirst(s, i - 1)>>
       \o split_at(DropFirst(s, i), sep, FindFrom(DropFirst(s, i), {sep}, 1))

split(s, sep) == split_at(s, sep, FindFrom(s, {sep}, 1))

\* sep.join(parts)
RECURSIVE join(_, _)
join(parts, sep) ==
  IF parts = <<>> THEN <<>>
  ELSE IF Len(parts) = 1 THEN parts[1]
  ELSE parts[1] \o <<sep>> \o join(Tail(parts), sep)

\* str.replace(c, by): every occurrence of character c replaced by the text by.
RECURSIVE replace(_, _, _)
replace(s, c, by) ==
  IF s = <<>> THEN <<>>
  ELSE (IF s[1] = c THEN by ELSE <<s[1]>>) \o replace(Tail(s), c, by)

---------------------------------------------------------------------------
(* urllib.parse.urljoin, as extract_articles calls it.  The inputs hold no  *)
(* ';' parameters and no leading whitespace, which urlsplit would treat    *)
(* specially.                                                              *)

BASE_URL == <<"h", "t", "t", "p", "s", ":", "/", "/", "w", "w", "w", ".",
              "o", "r", "a", "n", "g", "e", "n", "e", "w", "s", ".", "h", "k">>

\* urllib.parse.scheme_chars
scheme_chars == LowerCase \cup UpperCase \cup Digits \cup {"+", "-", "."}

lower_char(c) ==
  CASE c = "A" -> "a" [] c = "B" -> "b" [] c = "C" -> "c" [] c = "D" -> "d"
    [] c = "E" -> "e" [] c = "F" -> "f" [] c = "G" -> "g" [] c = "H" -> "h"
    [] c = "I" -> "i" [] c = "J" -> "j" [] c = "K" -> "k" [] c = "L" -> "l"
    [] c = "M" -> "m" [] c = "N" -> "n" [] c = "O" -> "o" [] c = "P" -> "p"
    [] c = "Q" -> "q" [] c = "R" -> "r" [] c = "S" -> "s" [] c = "T" -> "t"
    [] c = "U" -> "u" [] c = "V" -> "v" [] c = "W" -> "w" [] c = "X" -> "x"
    [] c = "Y" -> "y" [] c = "Z" -> "z" [] OTHER -> c

\* str.lower()
lower(s) == [i \in 1..Len(s) |-> lower_char(s[i])]

\* Length of the scheme url starts with (the text before its first ':'), or 0
\* when url has no scheme: the first character must be a letter and every
\* character before the ':' a scheme character.
scheme_end(url, i) ==
  IF i > 1 /\ url[1] \in LowerCase \cup UpperCase
           /\ \A k \in 1..(i - 1) : url[k] \in scheme_chars
  THEN i - 1 ELSE 0

scheme_len(url) == scheme_end(url, FindFrom(url, {":"}, 1))

\* url[:i] and url[i+1:] around the first character of cs at or after from,
\* all of url and nothing when there is none.
before_at(url, i) == IF i = 0 THEN url ELSE TakeFirst(url, i - 1)
after_at(url, i) == IF i = 0 THEN <<>> ELSE DropFirst(url, i)
before_first(url, cs, from) == before_at(url, FindFrom(url, cs, from))
after_first(url, cs, from) == after_at(url, FindFrom(url, cs, from))

\* The url from the first character of cs at or after from on, that
\* character included; nothing when there is none.
from_at(url, i) == IF i = 0 THEN <<>> ELSE DropFirst(url, i - 1)
from_first(url, cs, from) == from_at(url, FindFrom(url, cs, from))

\* urlsplit, after the scheme and the netloc are cut off: '#' ends the path
\* and the query, '?' ends the path.
split_path(scheme, netloc, rest) ==
  [scheme   |-> scheme,
   netloc   |-> netloc,
   path     |-> before_first(before_first(rest, {"#"}, 1), {"?"}, 1),
   query    |-> after_first(before_first(rest, {"#"}, 1), {"?"}, 1),
   fragment |-> after_first(rest, {"#"}, 1)]

\* urlsplit, after the scheme is cut off: '//' starts a netloc, which ends
\* at the first '/', '?' or '#'.
split_netloc(scheme, rest) ==
  IF startswith(rest, <<"/", "/">>)
  THEN split_path(scheme,
                  DropFirst(before_first(rest, {"/", "?", "#"}, 3), 2),
                  from_first(rest, {"/", "?", "#"}, 3))
  ELSE split_path(scheme, <<>>, rest)

split_scheme(url, default, n) ==
  IF n > 0 THEN split_netloc(lower(TakeFirst(url, n)), DropFirst(url, n + 1))
  ELSE split_netloc(default, url)

\* urlsplit(url, scheme=default): scheme, netloc, path, query, fragment.
urlsplit(url, default) == split_scheme(url, default, scheme_len(url))

\* urlunsplit, once the '//' netloc part is put before the path.
unsplit_rest(scheme, url, query, fragment) ==
  (IF scheme # <<>> THEN scheme \o <<":">> ELSE <<>>) \o url
  \o (IF query # <<>> THEN <<"?">> \o query ELSE <<>>)
  \o (IF fragment # <<>> THEN <<"#">> \o fragment ELSE <<>>)

\* urlunsplit: every scheme the model joins under (the base's) uses a netloc.
urlunsplit(scheme, netloc, path, query, fragment) ==
  IF netloc # <<>> \/ (scheme # <<>> /\ ~startswith(path, <<"/", "/">>))
  THEN unsplit_rest(scheme,
                    <<"/", "/">> \o netloc
                    \o (IF path # <<>> /\ path[1] # "/" THEN <<"/">> ELSE <<>>)
                    \o path,
                    query, fragment)
  ELSE unsplit_rest(scheme, path, query, fragment)

\* base_parts = bpath.split('/'); if base_parts[-1] != '': del base_parts[-1]
base_parts(parts) ==
  IF parts[Len(parts)] # <<>> THEN SubSeq(parts, 1, Len(parts) - 1) ELSE parts

\* segments[1:-1] = filter(None, segments[1:-1]): empty middle segments go.
drop_empty_middle(segs) ==
  IF Len(segs) <= 2 THEN segs
  ELSE <<segs[1]>>
       \o SelectSeq(SubSeq(segs, 2, Len(segs) - 1), LAMBDA x : x # <<>>)
       \o <<segs[Len(segs)]>>

\* The loop over segments: '..' pops, '.' is skipped, the rest is appended.
RECURSIVE remove_dots(_, _)
remove_dots(segs, acc) ==
  IF segs = <<>> THEN acc
  ELSE IF segs[1] = <<".", ".">>
       THEN remove_dots(Tail(segs),
                        IF acc = <<>> THEN acc ELSE SubSeq(acc, 1, Len(acc) - 1))
  ELSE IF segs[1] = <<".">> THEN remove_dots(Tail(segs), acc)
  ELSE remove_dots(Tail(segs), Append(acc, segs[1]))

\* '/'.join(resolved_path) or '/'
joined_or_root(path) == IF path = <<>> THEN <<"/">> ELSE path

\* The resolved path of these segments.
resolve_segments(segs) ==
  joined_or_root(
    join(IF segs[Len(segs)] \in {<<".">>, <<".", ".">>}
         THEN Append(remove_dots(segs, <<>>), <<>>)
         ELSE remove_dots(segs, <<>>),
         "/"))

\* urljoin, once base and url are split.
join_split(b, u, url) ==
  IF u.scheme # b.scheme THEN url
  ELSE IF u.netloc # <<>>
  THEN urlunsplit(u.scheme, u.netloc, u.path, u.query, u.fragment)
  ELSE IF u.path = <<>>
  THEN urlunsplit(u.scheme, b.netloc, b.path,
                  IF u.query = <<>> THEN b.query ELSE u.query, u.fragment)
  ELSE urlunsplit(u.scheme, b.netloc,
                  resolve_segments(
                    IF u.path[1] = "/" THEN split(u.path, "/")
                    ELSE drop_empty_middle(base_parts(split(b.path, "/"))
                                           \o split(u.path, "/"))),
                  u.query, u.fragment)

join_base(b, url) == join_split(b, urlsplit(url, b.scheme), url)

\* urljoin(base, url)
urljoin(base, url) ==
  IF base = <<>> THEN url
  ELSE IF url = <<>> THEN base
  ELSE join_base(urlsplit(base, <<>>), url)

---------------------------------------------------------------------------
(* The parsed page.  BeautifulSoup(html_content, 'html.parser') is a tree;  *)
(* the model holds its nodes in document order (a node comes after its     *)
(* parent), node 1 being the BeautifulSoup object itself:                  *)
(*   kind     "root" | "tag" (an element that is no anchor) | "a" | "text" *)
(*   parent   index of the parent node, 0 for the root's (None)            *)
(*   string   the characters of a text node                                *)
(*   has_href, href   an anchor's href attribute                           *)

Node(kind, parent, string, has_href, href) ==
  [kind |-> kind, parent |-> parent, string |-> string,
   has_href |-> has_href, href |-> href]

\* n is m, or an ancestor of m.
RECURSIVE IsUnder(_, _, _)
IsUnder(doc, m, n) ==
  IF m = n THEN TRUE
  ELSE IF m < n \/ doc[m].parent = 0 THEN FALSE
  ELSE IsUnder(doc, doc[m].parent, n)

\* Tag.get_text() / Tag.text: the strings under node n, in document order.
RECURSIVE get_text_from(_, _, _)
get_text_from(doc, n, m) ==
  IF m > Len(doc) THEN <<>>
  ELSE (IF doc[m].kind = "text" /\ IsUnder(doc, m, n) THEN doc[m].string ELSE <<>>)
       \o get_text_from(doc, n, m + 1)

get_text(doc, n) == get_text_from(doc, n, n)

\* soup.find_all('a'): the anchors, in document order.
find_all_a(doc) ==
  SelectSeq([i \in 1..Len(doc) |-> i], LAMBDA i : doc[i].kind = "a")

\* r'(\d{4}-\d{2}-\d{2})' matches text at index i.
date_match_at(text, i) ==
  /\ i + 9 <= Len(text)
  /\ \A k \in {0, 1, 2, 3, 5, 6, 8, 9} : text[i + k] \in Digits
  /\ text[i + 4] = "-"
  /\ text[i + 7] = "-"

\* re.search: the start of the leftmost match at or after i, 0 for no match.
RECURSIVE re_search_date(_, _)
re_search_date(text, i) ==
  IF i + 9 > Len(text) THEN 0
  ELSE IF date_match_at(text, i) THEN i
  ELSE re_search_date(text, i + 1)

\* Mutant of MAX_SEARCH_DEPTH: the walk goes one ancestor further.
SEARCH_DEPTH_ONE_MORE == 5 + 1

\* The depth limit of the ancestor walk.
MAX_SEARCH_DEPTH == 5

\* The while loop over the link's ancestors: date_match.group(1) of the first
\* ancestor whose text matches, <<>> (date_text stays None) when the walk ends.
RECURSIVE search_parents(_, _, _)
date_or_up(doc, parent, search_depth, text, at) ==
  IF at # 0 THEN SubSeq(text, at, at + 9)
  ELSE search_parents(doc, doc[parent].parent, search_depth + 1)

search_in(doc, parent, search_depth, text) ==
  date_or_up(doc, parent, search_depth, text, re_search_date(text, 1))

search_parents(doc, parent, search_depth) ==
  IF parent = 0 \/ ~(search_depth < MAX_SEARCH_DEPTH) THEN <<>>
  ELSE search_in(doc, parent, search_depth, get_text(doc, parent))

\* The labels of navigation links.
NAV_LABELS == {<<"U67E5", "U770B", "U66F4", "U591A">>,
               <<"U4E0B", "U8F09", "A", "P", "P">>,
               <<"U767B", "U5165">>,
               <<"U9996", "U9801">>}

\* The least length of a title.
MIN_TITLE_LEN == 5

\* Mutant of is_nav_or_empty: the navigation labels are not looked up.
is_empty_only(text) == text = <<>>

\* if not link.text or link.text.strip() in [...]: continue
is_nav_or_empty(text) == text = <<>> \/ strip(text) \in NAV_LABELS

\* if len(title) < 5: continue
is_short(title) == Len(title) < MIN_TITLE_LEN

\* if not href or href == '#': continue
is_bad_href(has_href, href) == ~has_href \/ href = <<>> \/ href = <<"#">>

\* if not href.startswith('http'): href = urljoin(BASE_URL, href)
normalize_url(href) ==
  IF ~startswith(href, <<"h", "t", "t", "p">>) THEN urljoin(BASE_URL, href)
  ELSE href

\* Mutant of has_link: the list is never searched.
has_link_never(articles, href) == FALSE

\* any(a['link'] == href for a in articles)
has_link(articles, href) == \E i \in 1..Len(articles) : articles[i].link = href

\* The article dict of one accepted link.
Article(title, link, pubDate, description) ==
  [title |-> title, link |-> link, pubDate |-> pubDate,
   description |-> description]

\* if not date_text: date_text = datetime.datetime.now().strftime('%Y-%m-%d')
date_or_today(date_text, today) == IF date_text = <<>> THEN today ELSE date_text

\* Mutant of add_article: the article is put at the front of the list.
add_article_front(articles, title, href, date_text) ==
  IF title # <<>> /\ href # <<>> /\ date_text # <<>> /\ ~has_link(articles, href)
  THEN <<Article(title, href, date_text, title)>> \o articles
  ELSE articles

\* The end of a pass, for a link that passed the filters: the article is
\* appended unless its link is already in the list.
add_article(articles, title, href, date_text) ==
  IF title # <<>> /\ href # <<>> /\ date_text # <<>> /\ ~has_link(articles, href)
  THEN Append(articles, Article(title, href, date_text, title))
  ELSE articles

accept_link(doc, link, articles, today, text, title) ==
  IF is_nav_or_empty(text) THEN articles
  ELSE IF is_short(title) THEN articles
  ELSE IF is_bad_href(doc[link].has_href, doc[link].href) THEN articles
  ELSE add_article(articles, title, normalize_url(doc[link].href),
                   date_or_today(search_parents(doc, doc[link].parent, 0), today))

link_text(doc, link, articles, today, text) ==
  accept_link(doc, link, articles, today, text, strip(text))

\* One pass of the for loop: the articles after the anchor at node link.
\* today is datetime.datetime.now().strftime('%Y-%m-%d').
loop_body(doc, link, articles, today) ==
  link_text(doc, link, articles, today, get_text(doc, link))

RECURSIVE loop_links(_, _, _, _)
loop_links(doc, links, articles, today) ==
  IF links = <<>> THEN articles
  ELSE loop_links(doc, Tail(links),
                  loop_body(doc, links[1], articles, today), today)

\* extract_articles(html_content).  html_content is [none, text]: none for
\* None, and text the nodes the parser makes of the markup, <<>> for ''.
extract_articles(html_content, today) ==
  IF html_content.none \/ html_content.text = <<>> THEN <<>>
  ELSE loop_links(html_content.text, find_all_a(html_content.text), <<>>, today)

---------------------------------------------------------------------------
(* datetime: a moment is [year, month, day, hour, minute, second].         *)

DateTime(year, month, day, hour, minute, second) ==
  [year |-> year, month |-> month, day |-> day,
   hour |-> hour, minute |-> minute, second |-> second]

DigitSeq == <<"0", "1", "2", "3", "4", "5", "6", "7", "8", "9">>

digit_val(c) == CHOOSE n \in 0..9 : DigitSeq[n + 1] = c

\* int() of a run of digits.
RECURSIVE int_of(_, _)
int_of(s, acc) ==
  IF s = <<>> THEN acc ELSE int_of(Tail(s), acc * 10 + digit_val(s[1]))

\* The decimal digits of n, without padding.
RECURSIVE decimal(_)
decimal(n) ==
  IF n < 10 THEN <<DigitSeq[n + 1]>>
  ELSE Append(decimal(n \div 10), DigitSeq[(n % 10) + 1])

\* %d, %m, %H, %M, %S: two digits, zero padded.
pad2(n) == <<DigitSeq[(n \div 10) + 1], DigitSeq[(n % 10) + 1]>>

is_leap(year) == year % 4 = 0 /\ (year % 100 # 0 \/ year % 400 = 0)

DAYS_IN_MONTH == <<31, 28, 31, 30, 31, 30, 31, 31, 30, 31, 30, 31>>

days_in_month(year, month) ==
  IF month = 2 /\ is_leap(year) THEN 29 ELSE DAYS_IN_MONTH[month]

days_before_year(year) ==
  LET y == year - 1
  IN  y * 365 + (y \div 4) - (y \div 100) + (y \div 400)

RECURSIVE days_before_month(_, _)
days_before_month(year, month) ==
  IF month = 1 THEN 0
  ELSE days_before_month(year, month - 1) + days_in_month(year, month - 1)

\* date.weekday(): Monday is 0.
weekday(year, month, day) ==
  (days_before_year(year) + days_before_month(year, month) + day + 6) % 7

DAY_NAMES == <<<<"M", "o", "n">>, <<"T", "u", "e">>, <<"W", "e", "d">>,
               <<"T", "h", "u">>, <<"F", "r", "i">>, <<"S", "a", "t">>,
               <<"S", "u", "n">>>>

MONTH_NAMES == <<<<"J", "a", "n">>, <<"F", "e", "b">>, <<"M", "a", "r">>,
                 <<"A", "p", "r">>, <<"M", "a", "y">>, <<"J", "u", "n">>,
                 <<"J", "u", "l">>, <<"A", "u", "g">>, <<"S", "e", "p">>,
                 <<"O", "c", "t">>, <<"N", "o", "v">>, <<"D", "e", "c">>>>

\* strftime("%a, %d %b %Y %H:%M:%S %z") of a moment in UTC.  %Y prints the
\* year's digits as they are (four of them from the year 1000 on).
strftime_rfc822(dt) ==
  DAY_NAMES[weekday(dt.year, dt.month, dt.day) + 1] \o <<",", " ">>
  \o pad2(dt.day) \o <<" ">> \o MONTH_NAMES[dt.month] \o <<" ">>
  \o decimal(dt.year) \o <<" ">>
  \o pad2(dt.hour) \o <<":">> \o pad2(dt.minute) \o <<":">> \o pad2(dt.second)
  \o <<" ", "+", "0", "0", "0", "0">>

\* strftime('%Y-%m-%d')
strftime_ymd(dt) ==
  decimal(dt.year) \o <<"-">> \o pad2(dt.month) \o <<"-">> \o pad2(dt.day)

\* Characters of s from index i that %m takes: 1[0-2] | 0[1-9] | [1-9], the
\* first alternative after which a '-' follows.  0 when none does.
month_width(s, i) ==
  LET two == /\ i + 2 <= Len(s)
             /\ \/ s[i] = "1" /\ s[i + 1] \in {"0", "1", "2"}
                \/ s[i] = "0" /\ s[i + 1] \in Digits \ {"0"}
             /\ s[i + 2] = "-"
      one == /\ i + 1 <= Len(s)
             /\ s[i] \in Digits \ {"0"}
             /\ s[i + 1] = "-"
  IN  IF two THEN 2 ELSE IF one THEN 1 ELSE 0

\* Characters of s from index i that %d takes:
\* 3[0-1] | [1-2]\d | 0[1-9] | [1-9] | ' '[1-9], the first that matches.
day_width(s, i) ==
  LET two == /\ i + 1 <= Len(s)
             /\ \/ s[i] = "3" /\ s[i + 1] \in {"0", "1"}
                \/ s[i] \in {"1", "2"} /\ s[i + 1] \in Digits
                \/ s[i] = "0" /\ s[i + 1] \in Digits \ {"0"}
      one == i <= Len(s) /\ s[i] \in Digits \ {"0"}
      spc == i + 1 <= Len(s) /\ s[i] = " " /\ s[i + 1] \in Digits \ {"0"}
  IN  IF two THEN 2 ELSE IF one THEN 1 ELSE IF spc THEN 2 ELSE 0

\* datetime.datetime.strptime(s, "%Y-%m-%d"): ok is FALSE where it raises
\* ValueError (no match, unconverted data, a day the month lacks, year 0).
strptime_ymd(s) ==
  LET bad  == [ok |-> FALSE, year |-> 0, month |-> 0, day |-> 0]
      head == Len(s) >= 5 /\ (\A k \in 1..4 : s[k] \in Digits) /\ s[5] = "-"
      mw   == IF head THEN month_width(s, 6) ELSE 0
      dw   == IF mw > 0 THEN day_width(s, 7 + mw) ELSE 0
  IN  IF ~head \/ mw = 0 \/ dw = 0 THEN bad
      ELSE IF 6 + mw + dw # Len(s) THEN bad
      ELSE
        LET year  == int_of(SubSeq(s, 1, 4), 0)
            month == int_of(SubSeq(s, 6, 5 + mw), 0)
            dtxt  == SubSeq(s, 7 + mw, 6 + mw + dw)
            day   == int_of(IF dtxt[1] = " " THEN Tail(dtxt) ELSE dtxt, 0)
        IN  IF year < 1 \/ day > days_in_month(year, month) THEN bad
            ELSE [ok |-> TRUE, year |-> year, month |-> month, day |-> day]

---------------------------------------------------------------------------
(* generate_rss_xml.  The document is the sequence of what the code        *)
(* appends: a literal piece of markup is one element (the string of the    *)
(* source), and an interpolated value contributes its characters.          *)

\* Mutant of html_escape: '&' is replaced last, after the references that
\* hold one are written.
html_escape_amp_last(s) ==
  LET s1 == replace(s, "<", <<"&", "l", "t", ";">>)
      s2 == replace(s1, ">", <<"&", "g", "t", ";">>)
      s3 == replace(s2, "\"", <<"&", "q", "u", "o", "t", ";">>)
      s4 == replace(s3, "'", <<"&", "#", "x", "2", "7", ";">>)
  IN  replace(s4, "&", <<"&", "a", "m", "p", ";">>)

\* html.escape(s), quote=True: '&' first, then '<', '>', '"' and "'".
html_escape(s) ==
  replace(replace(replace(replace(replace(s,
    "&", <<"&", "a", "m", "p", ";">>),
    "<", <<"&", "l", "t", ";">>),
    ">", <<"&", "g", "t", ";">>),
    "\"", <<"&", "q", "u", "o", "t", ";">>),
    "'", <<"&", "#", "x", "2", "7", ";">>)

\* dict.get(key, default)
dict_get(article, key, default) ==
  IF key \in DOMAIN article THEN article[key] ELSE default

\* The lines before the items; now is datetime.now(timezone.utc).
channel_head(now) ==
  <<"<?xml version=\"1.0\" encoding=\"UTF-8\" ?>\n",
    "<rss version=\"2.0\" xmlns:atom=\"http://www.w3.org/2005/Atom\">\n",
    "<channel>\n",
    "  <title>Orange News - Commentaries</title>\n",
    "  <link>">> \o BASE_URL \o <<"/html/topic/index.html</link>\n",
    "  <description>Latest commentaries from Orange News HK</description>\n",
    "  <language>zh-cn</language>\n",
    "  <atom:link href=\"https://totrphbm.manus.space/feed.xml\" rel=\"self\" type=\"application/rss+xml\" />\n",
    "  <lastBuildDate>">> \o strftime_rfc822(now) \o <<"</lastBuildDate>\n">>

\* Mutant of pub_date_rfc822: the parsed date is formatted as strptime
\* returns it, at midnight.
pub_date_midnight(article, now) ==
  IF "pubDate" \in DOMAIN article /\ article["pubDate"] # <<>>
  THEN LET dt == strptime_ymd(article["pubDate"])
       IN  IF dt.ok
           THEN strftime_rfc822(DateTime(dt.year, dt.month, dt.day, 0, 0, 0))
           ELSE strftime_rfc822(now)
  ELSE strftime_rfc822(now)

\* pub_date_rfc822 of one article; now is what datetime.now(timezone.utc)
\* returns if it is called.
pub_date_rfc822(article, now) ==
  IF "pubDate" \in DOMAIN article /\ article["pubDate"] # <<>>
  THEN LET dt == strptime_ymd(article["pubDate"])
       IN  IF dt.ok
           THEN strftime_rfc822(DateTime(dt.year, dt.month, dt.day, 12, 0, 0))
           ELSE strftime_rfc822(now)
  ELSE strftime_rfc822(now)

\* What one pass of the for loop appends.
item_block(article, now) ==
  LET title       == html_escape(dict_get(article, "title",
                       <<"N", "o", " ", "T", "i", "t", "l", "e">>))
      link        == html_escape(dict_get(article, "link", <<"#">>))
      description == html_escape(dict_get(article, "description", title))
  IN  <<"  <item>\n", "    <title>">> \o title
      \o <<"</title>\n", "    <link>">> \o link
      \o <<"</link>\n", "    <description>">> \o description
      \o <<"</description>\n", "    <pubDate>">> \o pub_date_rfc822(article, now)
      \o <<"</pubDate>\n", "    <guid isPermaLink=\"true\">">> \o link
      \o <<"</guid>\n", "  </item>\n">>

\* Mutant of item_blocks: the items come out last record first.
RECURSIVE item_blocks_reversed(_, _, _)
item_blocks_reversed(articles, clock, i) ==
  IF i > Len(articles) THEN <<>>
  ELSE item_blocks_reversed(articles, clock, i + 1)
       \o item_block(articles[i], clock[i + 1])

RECURSIVE item_blocks(_, _, _)
item_blocks(articles, clock, i) ==
  IF i > Len(articles) THEN <<>>
  ELSE item_block(articles[i], clock[i + 1]) \o item_blocks(articles, clock, i + 1)

\* generate_rss_xml(articles).  clock[1] is the time read for lastBuildDate
\* and clock[i + 1] the time at the i-th article.
generate_rss_xml(articles, clock) ==
  channel_head(clock[1]) \o item_blocks(articles, clock, 1)
  \o <<"</channel>\n", "</rss>\n">>

---------------------------------------------------------------------------
(* Inputs.  A page is a list of cards under the root; a card is an anchor  *)
(* inside `chain` nested containers, the outermost first.  The container   *)
(* `date_level` levels above the anchor (1 is the anchor's parent, 0 is    *)
(* none) holds a text `date`, before or after what it contains.            *)

\* Most cards of a page, and most articles of a list given to the renderer.
MaxCards == 2
\* Deepest nesting of an anchor.
MaxChain == 6

Card(text, has_href, href, chain, date_level, date, date_after) ==
  [text |-> text, has_href |-> has_href, href |-> href, chain |-> chain,
   date_level |-> date_level, date |-> date, date_after |-> date_after]

RECURSIVE add_chain(_, _, _, _)
add_chain(nodes, parent, level, card) ==
  IF level = 0
  THEN LET a == Append(nodes, Node("a", parent, <<>>, card.has_href, card.href))
       IN  IF card.text = <<>> THEN a
           ELSE Append(a, Node("text", Len(a), card.text, FALSE, <<>>))
  ELSE LET w      == Append(nodes, Node("tag", parent, <<>>, FALSE, <<>>))
           dated  == level = card.date_level
           dnode  == Node("text", Len(w), card.date, FALSE, <<>>)
           before == IF dated /\ ~card.date_after THEN Append(w, dnode) ELSE w
           inner  == add_chain(before, Len(w), level - 1, card)
       IN  IF dated /\ card.date_after THEN Append(inner, dnode) ELSE inner

RECURSIVE add_cards(_, _)
add_cards(nodes, cards) ==
  IF cards = <<>> THEN nodes
  ELSE add_cards(add_chain(nodes, 1, cards[1].chain, cards[1]), Tail(cards))

\* The parsed markup of a page of these cards.
Page(cards) == add_cards(<<Node("root", 0, <<>>, FALSE, <<>>)>>, cards)

T_NEWS    == <<" ", "N", "e", "w", "s", " ">>
T_STORY   == <<"S", "t", "o", "r", "y">>
T_NAV     == <<" ", "U4E0B", "U8F09", "A", "P", "P", "\n">>
T_ONE     == <<" ", "S", "t", "o", "r", "y", " ", "o", "n", "e", " ">>
T_TWO     == <<"S", "t", "o", "r", "y", " ", "t", "w", "o">>
T_MARKUP  == <<"A", "&", "B", " ", "<", "\"", "c", "'", ">">>
T_DATED   == <<"2", "0", "2", "4", "-", "0", "1", "-", "0", "2", " ", "n", "e", "w", "s">>

H_ROOTED  == <<"/", "a", "/", "1">>
H_PLAIN   == <<"a", "/", "1">>
H_FULL    == BASE_URL \o <<"/", "a", "/", "1">>
H_HTTPISH == <<"h", "t", "t", "p", "-", "x", "/", "1">>
H_MAILTO  == <<"m", "a", "i", "l", "t", "o", ":", "x">>
H_FRAG    == <<"#", "t", "o", "p">>
H_NETLOC  == <<"/", "/", "c", "d", "n", "/", "x">>
H_B       == <<"/", "b", "/", "2">>
H_C       == <<"/", "c", "/", "3">>
H_D       == <<"/", "d", "/", "4">>

D_MAR     == <<"2", "0", "2", "4", "-", "0", "3", "-", "1", "5">>
D_DEC     == <<"2", "0", "2", "3", "-", "1", "2", "-", "3", "1">>
D_FEB30   == <<"2", "0", "2", "4", "-", "0", "2", "-", "3", "0">>
D_LOOSE   == <<"2", "0", "2", "4", "-", "3", "-", "5">>
D_WORDS   == <<"n", "o", "t", "-", "a", "-", "d", "a", "t", "e">>

\* Cards whose anchor a filter rejects.
RejectedCards ==
  { Card(<<>>,   TRUE,  H_ROOTED, 1, 0, <<>>, FALSE),
    Card(T_NEWS, TRUE,  H_ROOTED, 1, 0, <<>>, FALSE),
    Card(T_NAV,  TRUE,  H_ROOTED, 1, 0, <<>>, FALSE),
    Card(T_ONE,  FALSE, <<>>,     1, 0, <<>>, FALSE),
    Card(T_ONE,  TRUE,  <<>>,     1, 0, <<>>, FALSE),
    Card(T_ONE,  TRUE,  <<"#">>,  1, 0, <<>>, FALSE) }

\* Cards of the same article under three spellings of its address, and of
\* hrefs of every shape.
LinkCards ==
  { Card(T_ONE,    TRUE, H_ROOTED,  1, 1, D_MAR, FALSE),
    Card(T_TWO,    TRUE, H_PLAIN,   2, 0, <<>>,  FALSE),
    Card(T_STORY,  TRUE, H_FULL,    1, 1, D_DEC, TRUE),
    Card(T_MARKUP, TRUE, H_HTTPISH, 1, 0, <<>>,  FALSE),
    Card(T_TWO,    TRUE, H_MAILTO,  1, 0, <<>>,  FALSE),
    Card(T_TWO,    TRUE, H_FRAG,    1, 0, <<>>,  FALSE),
    Card(T_TWO,    TRUE, H_NETLOC,  1, 0, <<>>,  FALSE) }

\* Cards for the date search: a date in the title itself, a text that is
\* almost a date, and a date at the outermost of 0 or of MaxChain - 3 to
\* MaxChain containers.
DateCards ==
  { Card(T_DATED, TRUE, H_B, 1, 1, D_MAR,   TRUE),
    Card(T_DATED, TRUE, H_B, 1, 1, D_FEB30, FALSE),
    Card(T_TWO,   TRUE, H_D, MaxChain, 1, D_LOOSE, FALSE) }
  \cup { Card(T_TWO, TRUE, H_C, c, c, D_DEC, FALSE) :
           c \in {0} \cup ((MaxChain - 3)..MaxChain) }

CardSet == RejectedCards \cup LinkCards \cup DateCards

\* The lists of at most n elements of S.
ListsUpTo(S, n) == UNION {[1..k -> S] : k \in 0..n}

\* What fetch_page can return: None, the empty text, or a page.
NoContent == [none |-> TRUE, text |-> <<>>]
Content(text) == [none |-> FALSE, text |-> text]

Pages == {Content(Page(cards)) : cards \in ListsUpTo(CardSet, MaxCards)}

\* The pages main() is run on: a navigation link, two articles, and a link
\* to the first article again.
MainCards ==
  { Card(T_NAV,    TRUE, H_ROOTED,  1, 0, <<>>,  FALSE),
    Card(T_ONE,    TRUE, H_ROOTED,  1, 1, D_MAR, FALSE),
    Card(T_MARKUP, TRUE, H_B,       2, 0, <<>>,  FALSE),
    Card(T_TWO,    TRUE, H_PLAIN,   2, 0, <<>>,  FALSE) }

MainPages == {Content(Page(cards)) : cards \in ListsUpTo(MainCards, MaxCards)}

\* The local time of the run, datetime.datetime.now().
LOCAL_NOWS == {DateTime(2024, 3, 16, 8, 0, 0), DateTime(2024, 11, 5, 23, 59, 59)}

\* Successive values of datetime.datetime.now(datetime.timezone.utc).
UTC_TICKS == <<DateTime(2024, 3, 16, 23, 59, 59), DateTime(2024, 3, 17, 0, 0, 0)>>

\* The times n successive reads of the clock return: the clock never runs back.
Clocks(n) ==
  { [i \in 1..n |-> UTC_TICKS[IF i <= k THEN 1 ELSE 2]] : k \in 0..n }

\* Articles given to generate_rss_xml directly: those extract_articles makes,
\* and dicts with a key missing or a pubDate that is no date.
L_QUERY == <<"h", "t", "t", "p", ":", "/", "/", "o", ".", "h", "k", "/", "?",
             "a", "=", "1", "&", "b", "=", "2">>
X_LT_Y  == <<"x", "<", "y">>
D_LEAP  == <<"2", "0", "2", "4", "-", "0", "2", "-", "2", "9">>

RenderArticles ==
  { Article(strip(T_ONE), H_FULL, D_MAR, strip(T_ONE)),
    Article(T_MARKUP, L_QUERY, D_FEB30, X_LT_Y),
    Article(T_TWO, H_FULL, D_WORDS, T_TWO),
    Article(T_TWO, H_MAILTO, <<>>, T_TWO),
    Article(T_STORY, L_QUERY, D_LOOSE, T_STORY),
    Article(T_STORY, H_FULL, D_LEAP, T_MARKUP),
    [title |-> T_TWO, link |-> H_FULL, description |-> T_TWO],
    [title |-> T_MARKUP, link |-> H_FULL, pubDate |-> D_DEC],
    [description |-> X_LT_Y, pubDate |-> D_DEC] }

---------------------------------------------------------------------------
(* State.                                                                  *)

VARIABLES
  pc,            \* where the run is
  html_content,  \* main: what fetch_page returned
  articles,      \* main: the extracted list
  rss_content,   \* main: the rendered document
  feed_file,     \* the file at args.output: [exists, data]
  exit_code,     \* <<>> while main runs, then <<its return value>>
  local_now,     \* the local time of the run
  utc_clock,     \* the UTC times generate_rss_xml read
  stages         \* the stages that have run, in order

vars == <<pc, html_content, articles, rss_content, feed_file, exit_code,
          local_now, utc_clock, stages>>

OLD_FEED == <<"o", "l", "d", " ", "f", "e", "e", "d">>

NoFile == [exists |-> FALSE, data |-> <<>>]
File(data) == [exists |-> TRUE, data |-> data]

\* if not html_content / if not articles
falsy(content) == content.none \/ content.text = <<>>

Idle ==
  /\ html_content = NoContent
  /\ articles = <<>>
  /\ rss_content = <<>>
  /\ exit_code = <<>>
  /\ utc_clock = <<>>
  /\ stages = <<>>

---------------------------------------------------------------------------
(* main()                                                                  *)

Init ==
  /\ pc = "fetch"
  /\ Idle
  /\ feed_file \in {NoFile, File(OLD_FEED)}
  /\ local_now \in LOCAL_NOWS

\* html_content = fetch_page(TOPIC_URL); if not html_content: return 1
MainFetch ==
  /\ pc = "fetch"
  /\ \E got \in {NoContent, Content(<<>>)} \cup MainPages :
       /\ html_content' = got
       /\ IF falsy(got)
          THEN pc' = "returned" /\ exit_code' = <<1>>
          ELSE pc' = "extract" /\ exit_code' = exit_code
  /\ stages' = Append(stages, "fetch")
  /\ UNCHANGED <<articles, rss_content, feed_file, local_now, utc_clock>>

\* Mutant of MainExtract: an empty list is not checked for.
MainExtract_unchecked ==
  /\ pc = "extract"
  /\ articles' = extract_articles(html_content, strftime_ymd(local_now))
  /\ pc' = "render"
  /\ stages' = Append(stages, "extract")
  /\ UNCHANGED <<html_content, rss_content, feed_file, exit_code, local_now, utc_clock>>

\* articles = extract_articles(html_content); if not articles: return 1
MainExtract ==
  /\ pc = "extract"
  /\ articles' = extract_articles(html_content, strftime_ymd(local_now))
  /\ IF articles' = <<>>
     THEN pc' = "returned" /\ exit_code' = <<1>>
     ELSE pc' = "render" /\ exit_code' = exit_code
  /\ stages' = Append(stages, "extract")
  /\ UNCHANGED <<html_content, rss_content, feed_file, local_now, utc_clock>>

\* rss_content = generate_rss_xml(articles)
MainRender ==
  /\ pc = "render"
  /\ \E clock \in Clocks(Len(articles) + 1) :
       /\ rss_content' = generate_rss_xml(articles, clock)
       /\ utc_clock' = clock
  /\ pc' = "open"
  /\ stages' = Append(stages, "render")
  /\ UNCHANGED <<html_content, articles, feed_file, exit_code, local_now>>

\* open(args.output, 'w', encoding='utf-8'): the file is created or cut to
\* nothing, or IOError is raised and main returns 1.
MainOpen ==
  /\ pc = "open"
  /\ \/ /\ feed_file' = File(<<>>)
        /\ pc' = "write"
        /\ exit_code' = exit_code
     \/ /\ feed_file' = feed_file
        /\ pc' = "returned"
        /\ exit_code' = <<1>>
  /\ stages' = Append(stages, "write")
  /\ UNCHANGED <<html_content, articles, rss_content, local_now, utc_clock>>

\* Where a write that fails may stop: what reached the file is a proper
\* prefix of the document.
Cuts(doc) == {0, Len(doc) \div 2, Len(doc) - 1}

\* f.write(rss_content) and the close at the end of the with block, then
\* return 0; or IOError part of the way, and return 1.
MainWrite ==
  /\ pc = "write"
  /\ \/ /\ feed_file' = File(rss_content)
        /\ exit_code' = <<0>>
     \/ /\ \E k \in Cuts(rss_content) : feed_file' = File(TakeFirst(rss_content, k))
        /\ exit_code' = <<1>>
  /\ pc' = "returned"
  /\ UNCHANGED <<html_content, articles, rss_content, local_now, utc_clock, stages>>

Next == MainFetch \/ MainExtract \/ MainRender \/ MainOpen \/ MainWrite

Spec == Init /\ [][Next]_vars

---------------------------------------------------------------------------
(* extract_articles called on its own.                                     *)

InitExtract ==
  /\ pc = "call_extract"
  /\ html_content \in {NoContent, Content(<<>>)} \cup Pages
  /\ articles = <<>>
  /\ rss_content = <<>>
  /\ exit_code = <<>>
  /\ utc_clock = <<>>
  /\ stages = <<>>
  /\ feed_file = NoFile
  /\ local_now \in LOCAL_NOWS

CallExtract ==
  /\ pc = "call_extract"
  /\ articles' = extract_articles(html_content, strftime_ymd(local_now))
  /\ pc' = "extracted"
  /\ UNCHANGED <<html_content, rss_content, feed_file, exit_code, local_now,
                 utc_clock, stages>>

SpecExtract == InitExtract /\ [][CallExtract]_vars

---------------------------------------------------------------------------
(* generate_rss_xml called on its own.                                     *)

InitRender ==
  /\ pc = "call_render"
  /\ html_content = NoContent
  /\ articles \in ListsUpTo(RenderArticles, MaxCards)
  /\ rss_content = <<>>
  /\ exit_code = <<>>
  /\ utc_clock = <<>>
  /\ stages = <<>>
  /\ feed_file = NoFile
  /\ local_now = DateTime(2024, 3, 16, 8, 0, 0)

CallRender ==
  /\ pc = "call_render"
  /\ \E clock \in Clocks(Len(articles) + 1) :
       /\ rss_content' = generate_rss_xml(articles, clock)
       /\ utc_clock' = clock
  /\ pc' = "rendered"
  /\ UNCHANGED <<html_content, articles, feed_file, exit_code, local_now, stages>>

SpecRender == InitRender /\ [][CallRender]_vars

---------------------------------------------------------------------------
(* Properties of extract_articles, checked under SpecExtract.              *)

Doc == html_content.text

Extracted == pc = "extracted" /\ ~falsy(html_content)

Anchors == {a \in 1..Len(Doc) : Doc[a].kind = "a"}

\* The display text of an anchor, trimmed.
Trimmed(a) == strip(get_text(Doc, a))

\* The anchor passes the four filters.
Qualifies(a) ==
  /\ Len(Trimmed(a)) >= 5
  /\ Trimmed(a) \notin NAV_LABELS
  /\ Doc[a].has_href
  /\ Doc[a].href # <<>>
  /\ Doc[a].href # <<"#">>

\* The qualifying anchors, in document order.
Qualifying == SelectSeq(find_all_a(Doc), Qualifies)

\* The link the code gives an anchor's href.
Resolved(a) == normalize_url(Doc[a].href)

\* The qualifying anchors, each with its link and its title.
Facts ==
  { [a |-> a, link |-> Resolved(a), title |-> Trimmed(a)] :
      a \in {a \in Anchors : Qualifies(a)} }

\* Of these anchors, the first in document order with this link.
FirstOf(facts, link) ==
  CHOOSE f \in facts :
    f.link = link /\ \A g \in facts : g.link = link => f.a <= g.a

\* The first qualifying anchor with the resolved href of a.
FirstWith(a) == FirstOf(Facts, Resolved(a)).a

\* The date the code's walk gives an anchor.
WalkDate(a) ==
  date_or_today(search_parents(Doc, Doc[a].parent, 0), strftime_ymd(local_now))

\* C1: no two records of the returned list have the same link, and the
\* record of a link carries the title and the pubDate of the first
\* qualifying anchor, in document order, that resolves to that link.
C1_UniqueLinkFirstWins ==
  Extracted =>
    /\ \A i, j \in 1..Len(articles) :
         i # j => articles[i].link # articles[j].link
    /\ LET facts == Facts
       IN  \A x \in facts :
             LET first == FirstOf(facts, x.link)
             IN  \E i \in 1..Len(articles) :
                   /\ articles[i].link = x.link
                   /\ articles[i].title = first.title
                   /\ articles[i].pubDate = WalkDate(first.a)

\* Two qualifying anchors resolve to one link, under different titles and
\* dates, and one record came out, the first anchor's.
C1_Witness ==
  /\ Extracted
  /\ \E a, b \in Anchors :
       /\ a < b /\ Qualifies(a) /\ Qualifies(b)
       /\ Resolved(a) = Resolved(b)
       /\ Trimmed(a) # Trimmed(b)
       /\ WalkDate(a) # WalkDate(b)
       /\ Len(articles) = 1
       /\ articles[1].title = Trimmed(a)

\* The page with anchor a turned into an element that is no anchor, its
\* text left where it is.
WithoutAnchor(a) ==
  Content([Doc EXCEPT ![a] = Node("tag", Doc[a].parent, <<>>, FALSE, <<>>)])

\* C2: an anchor whose trimmed text is shorter than 5 characters or is a
\* navigation label, or whose href is absent or '#', contributes nothing (the
\* result is what it is without that anchor); and every record has a trimmed
\* title of at least 5 characters that is no navigation label and a link
\* other than '#'.
C2_FilteredNeverAppear ==
  Extracted =>
    /\ \A a \in Anchors :
         ( \/ Len(Trimmed(a)) < 5
           \/ Trimmed(a) \in NAV_LABELS
           \/ ~Doc[a].has_href
           \/ Doc[a].href = <<"#">> )
         => articles = extract_articles(WithoutAnchor(a), strftime_ymd(local_now))
    /\ \A i \in 1..Len(articles) :
         /\ Len(articles[i].title) >= 5
         /\ strip(articles[i].title) = articles[i].title
         /\ articles[i].title \notin NAV_LABELS
         /\ articles[i].link # <<"#">>

\* A navigation link of 5 characters with a good href stands before an
\* article, and only the article came out.
C2_Witness ==
  /\ Extracted
  /\ \E a, b \in Anchors :
       /\ a < b
       /\ Trimmed(a) \in NAV_LABELS /\ Len(Trimmed(a)) >= 5
       /\ Doc[a].has_href /\ Doc[a].href \notin {<<>>, <<"#">>}
       /\ Qualifies(b)
  /\ Len(articles) = 1

\* The i-th record is the i-th of these anchors.
MatchesInOrder(links) ==
  /\ Len(articles) = Len(links)
  /\ \A i \in 1..Len(links) :
       /\ articles[i].title = Trimmed(links[i])
       /\ articles[i].link = Resolved(links[i])
       /\ articles[i].description = Trimmed(links[i])

\* C3, as stated: N qualifying links with distinct hrefs give exactly N
\* records, the i-th record being the i-th qualifying link.
C3_DistinctHrefs ==
  Extracted =>
    LET links == Qualifying
    IN  (\A i, j \in 1..Len(links) :
           i # j => Doc[links[i]].href # Doc[links[j]].href)
        => MatchesInOrder(links)

\* C3, amended: N qualifying links whose hrefs resolve to distinct links give
\* exactly N records, the i-th record being the i-th qualifying link.
C3_DistinctResolved ==
  Extracted =>
    LET links == Qualifying
        facts == Facts
    IN  (\A x, y \in facts : x.a # y.a => x.link # y.link)
        => MatchesInOrder(links)

\* Two qualifying links with distinct links after a rejected one, and two
\* records.
C3_Witness ==
  /\ Extracted
  /\ Len(Qualifying) = 2
  /\ Resolved(Qualifying[1]) # Resolved(Qualifying[2])
  /\ Trimmed(Qualifying[1]) # Trimmed(Qualifying[2])
  /\ Len(articles) = 2

\* C4: the link of an accepted anchor is its href resolved against BASE_URL
\* when the href has no scheme, and the href itself when it has one; so every
\* link has a scheme.
C4_LinksAbsolute ==
  Extracted =>
    /\ \A a \in Anchors :
         Qualifies(a) =>
           \E i \in 1..Len(articles) :
             articles[i].link =
               IF scheme_len(Doc[a].href) = 0 THEN urljoin(BASE_URL, Doc[a].href)
               ELSE Doc[a].href
    /\ \A i \in 1..Len(articles) : scheme_len(articles[i].link) > 0

\* The k-th ancestor of node a (the first is its parent), 0 past the root.
RECURSIVE Ancestor(_, _)
Ancestor(a, k) ==
  IF k = 0 THEN a
  ELSE LET below == Ancestor(a, k - 1)
       IN  IF below = 0 THEN 0 ELSE Doc[below].parent

\* The ten characters of text from index i read YYYY-MM-DD.
ReadsAsDate(text, i) ==
  /\ i + 9 <= Len(text)
  /\ \A k \in 0..9 :
       IF k \in {4, 7} THEN text[i + k] = "-" ELSE text[i + k] \in Digits

HasDate(text) == \E i \in 1..Len(text) : ReadsAsDate(text, i)

FirstDate(text) ==
  LET i == CHOOSE i \in 1..Len(text) :
             ReadsAsDate(text, i) /\ \A j \in 1..(i - 1) : ~ReadsAsDate(text, j)
  IN  SubSeq(text, i, i + 9)

\* The levels, among the 5 nearest ancestors of a, whose text holds a date.
DatedLevels(a) ==
  {k \in 1..5 : Ancestor(a, k) # 0 /\ HasDate(get_text(Doc, Ancestor(a, k)))}

Nearest(levels) == CHOOSE k \in levels : \A l \in levels : k <= l

\* The anchor is the one its record is made from.
Accepted(a) == Qualifies(a) /\ FirstWith(a) = a

RecordOf(a) == CHOOSE i \in 1..Len(articles) : articles[i].link = Resolved(a)

\* C10: the pubDate of an accepted anchor is the first YYYY-MM-DD in the text
\* of the nearest of its 5 nearest ancestors that holds one, and the local
\* date of the run when none of them does (a date further up is not used).
C10_DateFromNearestAncestor ==
  Extracted =>
    LET facts == Facts
    IN  \A x \in facts :
          FirstOf(facts, x.link).a = x.a =>
            LET levels == DatedLevels(x.a)
                date   == IF levels = {} THEN strftime_ymd(local_now)
                          ELSE FirstDate(get_text(Doc, Ancestor(x.a, Nearest(levels))))
            IN  /\ \E i \in 1..Len(articles) : articles[i].link = x.link
                /\ \A i \in 1..Len(articles) :
                     articles[i].link = x.link => articles[i].pubDate = date

\* An accepted anchor whose only dated ancestor is the 6th: its record
\* carries the date of the run.
C10_Witness ==
  /\ Extracted
  /\ \E a \in Anchors :
       /\ Accepted(a)
       /\ DatedLevels(a) = {}
       /\ Ancestor(a, 6) # 0
       /\ HasDate(get_text(Doc, Ancestor(a, 6)))
       /\ articles[RecordOf(a)].pubDate = strftime_ymd(local_now)

---------------------------------------------------------------------------
(* Properties of main(), checked under Spec.                               *)

STAGES == <<"fetch", "extract", "render", "write">>

Returned == pc = "returned"

\* The file is as it was before the run.
Untouched == feed_file \in {NoFile, File(OLD_FEED)}

\* C5: the stages run in the order fetch, extract, render, write; main
\* returns 0 only with the whole document in the file, and 1 otherwise; and
\* when nothing was fetched or no article was extracted, neither render nor
\* write ran and the file is untouched.
C5_StagesAndExitCode ==
  /\ stages = SubSeq(STAGES, 1, Len(stages))
  /\ exit_code # <<>> <=> Returned
  /\ Returned =>
       /\ exit_code \in {<<0>>, <<1>>}
       /\ exit_code = <<0>> <=>
            (stages = STAGES /\ rss_content # <<>> /\ feed_file = File(rss_content))
       /\ falsy(html_content) =>
            exit_code = <<1>> /\ stages = <<"fetch">> /\ Untouched
       /\ (~falsy(html_content) /\ articles = <<>>) =>
            exit_code = <<1>> /\ stages = <<"fetch", "extract">> /\ Untouched

\* A page was fetched, no article was extracted, and the run ended with 1
\* and the old feed in place.
C5_Witness ==
  /\ Returned
  /\ ~falsy(html_content)
  /\ articles = <<>>
  /\ exit_code = <<1>>
  /\ feed_file = File(OLD_FEED)

\* C6: the file holds what it held before the run or the whole rendered
\* document, in every state of a run.
C6_NoPartialFile ==
  Untouched \/ (rss_content # <<>> /\ feed_file = File(rss_content))

---------------------------------------------------------------------------
(* Properties of generate_rss_xml, checked under SpecRender.  The document *)
(* is read back: an element is found by its opening markup, and its text   *)
(* is what stands between that and the closing markup.                     *)

Rendered == pc = "rendered"

\* The places of a piece of markup in the document, in order.
PlacesOf(markup) ==
  SelectSeq([i \in 1..Len(rss_content) |-> i], LAMBDA i : rss_content[i] = markup)

\* The first place after i of a piece of markup.
NextPlace(markup, i) ==
  CHOOSE c \in (i + 1)..Len(rss_content) :
    /\ rss_content[c] = markup
    /\ \A d \in (i + 1)..(c - 1) : rss_content[d] # markup

\* The text of the k-th element opened by open and closed by close.
ElementText(open, close, k) ==
  SubSeq(rss_content, PlacesOf(open)[k] + 1, NextPlace(close, PlacesOf(open)[k]) - 1)

ItemTitle(k) == ElementText("    <title>", "</title>\n", k)
ItemLink(k) == ElementText("    <link>", "</link>\n", k)
ItemDescription(k) == ElementText("    <description>", "</description>\n", k)
ItemPubDate(k) == ElementText("    <pubDate>", "</pubDate>\n", k)
ItemGuid(k) == ElementText("    <guid isPermaLink=\"true\">", "</guid>\n", k)

\* The character references html.escape writes, and what each stands for.
REFERENCES ==
  << [text |-> <<"&", "a", "m", "p", ";">>, char |-> "&"],
     [text |-> <<"&", "l", "t", ";">>, char |-> "<"],
     [text |-> <<"&", "g", "t", ";">>, char |-> ">"],
     [text |-> <<"&", "q", "u", "o", "t", ";">>, char |-> "\""],
     [text |-> <<"&", "#", "x", "2", "7", ";">>, char |-> "'"] >>

ReferenceAt(s, i) ==
  {r \in 1..Len(REFERENCES) :
     /\ i + Len(REFERENCES[r].text) - 1 <= Len(s)
     /\ SubSeq(s, i, i + Len(REFERENCES[r].text) - 1) = REFERENCES[r].text}

\* The text a reader of the document gets: each reference replaced by its
\* character, from the left.
RECURSIVE UnescapeFrom(_, _)
UnescapeFrom(s, i) ==
  IF i > Len(s) THEN <<>>
  ELSE IF ReferenceAt(s, i) # {}
  THEN LET r == CHOOSE r \in ReferenceAt(s, i) : TRUE
       IN  <<REFERENCES[r].char>> \o UnescapeFrom(s, i + Len(REFERENCES[r].text))
  ELSE <<s[i]>> \o UnescapeFrom(s, i + 1)

Unescape(s) == UnescapeFrom(s, 1)

Has(k, key) == key \in DOMAIN articles[k]

\* The places of the item blocks and of the lines of the channel.
ItemOpens == PlacesOf("  <item>\n")
ItemCloses == PlacesOf("  </item>\n")
LastBuildDateClose == PlacesOf("</lastBuildDate>\n")

\* C7: the document is the declaration, the rss root, one channel with its
\* title, link, description, language, self link and lastBuildDate, then one
\* item block per record in the order of the list, the i-th holding the i-th
\* record's title, link and description and a guid that is its link, and
\* then the closing of channel and rss; also for an empty list.
C7_DocumentStructure ==
  Rendered =>
    LET n == Len(articles) IN
    /\ rss_content[1] = "<?xml version=\"1.0\" encoding=\"UTF-8\" ?>\n"
    /\ rss_content[2] = "<rss version=\"2.0\" xmlns:atom=\"http://www.w3.org/2005/Atom\">\n"
    /\ PlacesOf("<channel>\n") = <<3>>
    /\ rss_content[4] = "  <title>Orange News - Commentaries</title>\n"
    /\ PlacesOf("  <link>") = <<5>>
    /\ SubSeq(rss_content, 6, NextPlace("/html/topic/index.html</link>\n", 5) - 1) = BASE_URL
    /\ LET d == NextPlace("/html/topic/index.html</link>\n", 5) + 1
       IN  /\ rss_content[d] = "  <description>Latest commentaries from Orange News HK</description>\n"
           /\ rss_content[d + 1] = "  <language>zh-cn</language>\n"
           /\ rss_content[d + 2] = "  <atom:link href=\"https://totrphbm.manus.space/feed.xml\" rel=\"self\" type=\"application/rss+xml\" />\n"
           /\ PlacesOf("  <lastBuildDate>") = <<d + 3>>
    /\ Len(LastBuildDateClose) = 1
    /\ Len(ItemOpens) = n
    /\ Len(ItemCloses) = n
    /\ Len(PlacesOf("    <guid isPermaLink=\"true\">")) = n
    /\ \A k \in 1..n :
         /\ IF k = 1 THEN ItemOpens[k] = LastBuildDateClose[1] + 1
            ELSE ItemOpens[k] = ItemCloses[k - 1] + 1
         /\ PlacesOf("    <title>")[k] = ItemOpens[k] + 1
         /\ PlacesOf("    <link>")[k] = NextPlace("</title>\n", ItemOpens[k]) + 1
         /\ PlacesOf("    <description>")[k] = NextPlace("</link>\n", ItemOpens[k]) + 1
         /\ PlacesOf("    <pubDate>")[k] = NextPlace("</description>\n", ItemOpens[k]) + 1
         /\ PlacesOf("    <guid isPermaLink=\"true\">")[k]
              = NextPlace("</pubDate>\n", ItemOpens[k]) + 1
         /\ ItemCloses[k] = NextPlace("</guid>\n", ItemOpens[k]) + 1
         /\ Has(k, "title") => Unescape(ItemTitle(k)) = articles[k].title
         /\ Has(k, "link") => Unescape(ItemLink(k)) = articles[k].link
         /\ Has(k, "description") => Unescape(ItemDescription(k)) = articles[k].description
         /\ ItemGuid(k) = ItemLink(k)
    /\ PlacesOf("</channel>\n")
         = <<IF n = 0 THEN LastBuildDateClose[1] + 1 ELSE ItemCloses[n] + 1>>
    /\ PlacesOf("</rss>\n") = <<Len(rss_content)>>
    /\ rss_content[Len(rss_content) - 1] = "</channel>\n"

\* Two different records were rendered.
C7_Witness ==
  /\ Rendered
  /\ Len(articles) = 2
  /\ Has(1, "title") /\ Has(2, "title") /\ Has(1, "link") /\ Has(2, "link")
  /\ articles[1].title # articles[2].title
  /\ articles[1].link # articles[2].link

\* C8: no '<', '>' or '"' of a record reaches the document, every '&' in it
\* starts a character reference, and the text read back from the title, the
\* link, the description and the guid of an item is the record's own.
C8_EscapeRoundTrip ==
  Rendered =>
    /\ \A i \in 1..Len(rss_content) :
         /\ rss_content[i] \notin {"<", ">", "\""}
         /\ rss_content[i] = "&" => ReferenceAt(rss_content, i) # {}
    /\ \A k \in 1..Len(articles) :
         /\ Has(k, "title") => Unescape(ItemTitle(k)) = articles[k].title
         /\ Has(k, "link") => Unescape(ItemLink(k)) = articles[k].link
         /\ Has(k, "link") => Unescape(ItemGuid(k)) = articles[k].link
         /\ Has(k, "description") =>
              Unescape(ItemDescription(k)) = articles[k].description

\* A title with all of & < > " ' was rendered, and its description too.
C8_Witness ==
  /\ Rendered
  /\ \E k \in 1..Len(articles) :
       /\ Has(k, "title") /\ Has(k, "description") /\ Has(k, "link")
       /\ \A c \in {"&", "<", ">", "\"", "'"} :
            \E i \in 1..Len(articles[k].title) : articles[k].title[i] = c
       /\ \E i \in 1..Len(articles[k].link) : articles[k].link[i] = "&"

\* The years of the dates the inputs hold.
InputYears == {2023, 2024}

\* The ways strptime reads a day or a month written: two digits, or one
\* digit alone, or for a day a blank and one digit.
Spellings(n, blank) ==
  {pad2(n)} \cup (IF n < 10 THEN {decimal(n)} ELSE {})
            \cup (IF n < 10 /\ blank THEN {<<" ">> \o decimal(n)} ELSE {})

DaysIn(y, m) ==
  IF m = 2 THEN (IF y % 4 = 0 /\ (y % 100 # 0 \/ y % 400 = 0) THEN 29 ELSE 28)
  ELSE IF m \in {4, 6, 9, 11} THEN 30 ELSE 31

\* The calendar dates a pubDate string denotes (one at most).
DatesOf(s) ==
  UNION { IF startswith(s, decimal(ym[1]) \o <<"-">> \o ym[3] \o <<"-">>)
          THEN {<<ym[1], ym[2], d>> : d \in
                  {d \in 1..DaysIn(ym[1], ym[2]) :
                     \E ds \in Spellings(d, TRUE) :
                       s = decimal(ym[1]) \o <<"-">> \o ym[3] \o <<"-">> \o ds}}
          ELSE {}
        : ym \in {<<y, m, ms>> \in InputYears \X (1..12) \X
                    UNION {Spellings(m, FALSE) : m \in 1..12} :
                    ms \in Spellings(m, FALSE)} }

\* The day of the week by Zeller's congruence: 0 is Saturday.
Zeller(y, m, d) ==
  LET mm == IF m < 3 THEN m + 12 ELSE m
      yy == IF m < 3 THEN y - 1 ELSE y
  IN  (d + ((13 * (mm + 1)) \div 5) + (yy % 100) + ((yy % 100) \div 4)
         + ((yy \div 100) \div 4) + 5 * (yy \div 100)) % 7

ZELLER_NAMES == <<<<"S", "a", "t">>, <<"S", "u", "n">>, <<"M", "o", "n">>,
                  <<"T", "u", "e">>, <<"W", "e", "d">>, <<"T", "h", "u">>,
                  <<"F", "r", "i">>>>

\* "Dow, DD Mon YYYY HH:MM:SS +0000" of a moment.
Stamp(y, m, d, H, M, S) ==
  ZELLER_NAMES[Zeller(y, m, d) + 1] \o <<",", " ">> \o pad2(d) \o <<" ">>
  \o MONTH_NAMES[m] \o <<" ">> \o decimal(y) \o <<" ">>
  \o pad2(H) \o <<":">> \o pad2(M) \o <<":">> \o pad2(S)
  \o <<" ", "+", "0", "0", "0", "0">>

FRI_15_MAR ==
  <<"F", "r", "i", ",", " ", "1", "5", " ", "M", "a", "r", " ", "2", "0", "2",
    "4", " ", "1", "2", ":", "0", "0", ":", "0", "0", " ", "+", "0", "0", "0", "0">>

\* C9: the pubDate of an item is noon UTC of the record's date when its
\* pubDate string parses as a date ("2024-03-15" gives "Fri, 15 Mar 2024
\* 12:00:00 +0000"), and the UTC time read at that item when the string is
\* missing, empty or no date; every record has its item either way.
C9_PubDateOrNow ==
  Rendered =>
    /\ Len(PlacesOf("    <pubDate>")) = Len(articles)
    /\ Len(ItemOpens) = Len(articles)
    /\ \A k \in 1..Len(articles) :
         /\ Len(ItemPubDate(k)) = 31
         /\ IF Has(k, "pubDate") /\ DatesOf(articles[k].pubDate) # {}
            THEN \A ymd \in DatesOf(articles[k].pubDate) :
                   ItemPubDate(k) = Stamp(ymd[1], ymd[2], ymd[3], 12, 0, 0)
            ELSE LET now == utc_clock[k + 1]
                 IN  ItemPubDate(k) = Stamp(now.year, now.month, now.day,
                                            now.hour, now.minute, now.second)
         /\ (Has(k, "pubDate") /\ articles[k].pubDate = D_MAR)
              => ItemPubDate(k) = FRI_15_MAR
         /\ Has(k, "title") => Unescape(ItemTitle(k)) = articles[k].title

\* A record whose pubDate is no date stands before one whose
\* pubDate is 2024-03-15, and both items are in the document.
C9_Witness ==
  /\ Rendered
  /\ Len(articles) = 2
  /\ Has(1, "pubDate") /\ articles[1].pubDate = D_WORDS
  /\ Has(2, "pubDate") /\ articles[2].pubDate = D_MAR
  /\ Len(ItemOpens) = 2

====
